---- MODULE Spec2Model ----
(***************************************************************************)
(* The sheet store (zustand store of Toolbar.tsx), the formula evaluator  *)
(* (types/sheet.ts) and the recalculation effect of the Cell component    *)
(* (Cell.tsx), as a state machine.                                         *)
(*                                                                         *)
(* Texts.  A JavaScript string held in a cell is one of                    *)
(*   Str(s)   a text that is not the decimal form of a number ("" too),    *)
(*   Num(n)   the decimal text of the natural number n,                    *)
(*   Fml(fn, parts)  the text "=" fn "(" parts joined by ":" ")".          *)
(* A cell id is the text <column letters><row>; it is kept as the pair of *)
(* its letter run (letter codes, A = 1) and its row number, which is what *)
(* the regular expressions /[A-Z]+/ and /\d+/ of the store extract.       *)
(*                                                                         *)
(* Objects.  A JavaScript object map keeps its keys in insertion order;    *)
(* a map of cells is a sequence of entries [id, cell, born].  `born` is    *)
(* the identity of the cell object (the tick of the step that allocated    *)
(* it): two entries with the same id and the same born are one object.    *)
(*                                                                         *)
(* Effects.  A change of `cells` re-renders every Cell and schedules its   *)
(* effect; the effect closes over the cells of that render.  `effects` is  *)
(* the calls of updateCell the scheduled effects will make, in render      *)
(* order.                                                                  *)
(***************************************************************************)
EXTENDS Integers, Sequences, FiniteSets, TLC

\* ------------------------------------------------------------------ bounds
\* The program's constants, scaled down so that eviction and the grid's
\* edges are reached.
MAX_HISTORY == 3
DEFAULT_ROWS == 2
DEFAULT_COLS == 2
\* Bounds of the exploration.
MaxOps == 3
MaxLiveOps == 3
MaxClipOps == 5
MaxVal == 4
MaxRows == 3
MaxCols == 3

\* The largest column index and row encoded and decoded by the address calls.
MaxColIndex == 27

MaxRefRow == 3

VARIABLES
    cells, rows, cols,
    selectedCell, selectedCells, isDragging, dragStart, dragStartCell,
    clipboard, history, historyIndex,
    effects, reads, timers,
    budget, lastOp

\* Everything but the scheduled effects.
shown ==
    << cells, rows, cols, selectedCell, selectedCells, isDragging, dragStart,
       dragStartCell, clipboard, history, historyIndex, reads, timers,
       budget, lastOp >>

vars == << shown, effects >>

grid == << cells, rows, cols >>
store == << cells, rows, cols, history, historyIndex, effects >>
selection == << selectedCell, selectedCells, isDragging, dragStart, dragStartCell >>
async == << reads, timers >>

\* ------------------------------------------------------------------- texts
Null == [null |-> TRUE]

Str(s) == [t |-> "str", s |-> s]

Num(n) == [t |-> "num", n |-> n]

Ref(colLetters, row) == [k |-> "ref", cabs |-> FALSE, col |-> colLetters, rabs |-> FALSE, row |-> row]

Fml(fn, parts) == [t |-> "fml", fn |-> fn, parts |-> parts]

\* formula.startsWith('=') / value.startsWith('=')
startsWithEq(text) == text.t = "fml"

\* !isNaN(Number(v)): Number("") is 0, Number of the decimal text of n is n,
\* every other text of the model is NaN.
isNumeric(v) == v.t = "num" \/ v = Str("")

Number(v) == IF v.t = "num" THEN v.n ELSE 0

\* --------------------------------------------------------------- cell ids
CellId(colLetters, row) == [col |-> colLetters, row |-> row]

RECURSIVE columnLetterToIndexAcc(_, _)
columnLetterToIndexAcc(col, result) ==
    IF col = << >> THEN result
    ELSE columnLetterToIndexAcc(Tail(col), result * 26 + Head(col))

columnLetterToIndex(col) == columnLetterToIndexAcc(col, 0) - 1

RECURSIVE indexToColumnLetterAcc(_, _)
indexToColumnLetterAcc(index, letter) ==
    IF index > 0
    THEN indexToColumnLetterAcc((index - 1) \div 26, << ((index - 1) % 26) + 1 >> \o letter)
    ELSE letter

indexToColumnLetter(index) == indexToColumnLetterAcc(index + 1, << >>)

\* String.fromCharCode(65 + col): one character, whatever col is.
fromCharCode65(col) == << col + 1 >>

\* The ids the App component renders a Cell for, in render (row-major) order:
\* the i-th Cell of a grid of c columns.
RenderedId(i, c) == CellId(fromCharCode65((i - 1) % c), ((i - 1) \div c) + 1)

RenderedIds(r, c) == [ i \in 1..(r * c) |-> RenderedId(i, c) ]

IsRendered(id, r, c) == \E i \in 1..(r * c) : RenderedId(i, c) = id

\* -------------------------------------------------------------- cell maps
createEmptyCell ==
    [ value |-> Str(""), formula |-> Str(""),
      style |-> [bold |-> FALSE, italic |-> FALSE, fontSize |-> 14, color |-> "#000000"] ]

Has(m, id) == \E i \in DOMAIN m : m[i].id = id

Pos(m, id) == CHOOSE i \in DOMAIN m : m[i].id = id

\* m[id]
Lookup(m, id) == m[Pos(m, id)].cell

\* { ...m, [id]: cell } with a freshly allocated cell object
Put(m, id, cell, tick) ==
    IF Has(m, id)
    THEN [ i \in DOMAIN m |-> IF m[i].id = id THEN [id |-> id, cell |-> cell, born |-> tick] ELSE m[i] ]
    ELSE Append(m, [id |-> id, cell |-> cell, born |-> tick])

\* { ...base, ...data } on records
Spread(base, data) ==
    [ f \in (DOMAIN base) \cup (DOMAIN data) |-> IF f \in DOMAIN data THEN data[f] ELSE base[f] ]

\* cells[ref]?.value || ''
getCellValue(m, ref) == IF Has(m, ref) THEN Lookup(m, ref).value ELSE Str("")

\* ------------------------------------------------------- formula evaluator
Invalid == [invalid |-> TRUE]

\* parseReference: the column index is accumulated as colIndex * 26 + (code - 65).
RECURSIVE colIndexAcc(_, _)
colIndexAcc(colLetter, colIndex) ==
    IF colLetter = << >> THEN colIndex
    ELSE colIndexAcc(Tail(colLetter), colIndex * 26 + (Head(colLetter) - 1))

parseReference(ref) ==
    IF ref.k # "ref" \/ ref.col = << >> THEN Invalid
    ELSE [ colIndex |-> colIndexAcc(ref.col, 0), row |-> ref.row,
           colAbsolute |-> ref.cabs, rowAbsolute |-> ref.rabs ]

\* The two nested loops of parseRange: columns outer, rows inner.
RangeCells(c1, c2, r1, r2) ==
    IF c2 < c1 \/ r2 < r1 THEN << >>
    ELSE LET h == r2 - r1 + 1
             n == (c2 - c1 + 1) * h
         IN [ i \in 1..n |->
                CellId(fromCharCode65(c1 + ((i - 1) \div h)), r1 + ((i - 1) % h)) ]

\* parseRange on the parts of range.split(':'); every formula text of the
\* model has one or two parts, each a reference.
parseRange(parts) ==
    IF parts = << >> THEN << >>
    ELSE LET start == parts[1]
             end == IF Len(parts) > 1 THEN parts[2] ELSE start
             startRef == parseReference(start)
             endRef == parseReference(end)
         IN IF startRef = Invalid \/ endRef = Invalid THEN << >>
            ELSE RangeCells(startRef.colIndex, endRef.colIndex, startRef.row, endRef.row)

RECURSIVE SumNumeric(_)
SumNumeric(values) ==
    IF values = << >> THEN 0
    ELSE (IF isNumeric(Head(values)) THEN Number(Head(values)) ELSE 0) + SumNumeric(Tail(values))

RECURSIVE CountNumeric(_)
CountNumeric(values) ==
    IF values = << >> THEN 0
    ELSE (IF isNumeric(Head(values)) THEN 1 ELSE 0) + CountNumeric(Tail(values))

evaluateFormula(formula, m) ==
    IF ~startsWithEq(formula) THEN formula
    ELSE LET range == parseRange(formula.parts)
             values == [ i \in DOMAIN range |-> getCellValue(m, range[i]) ]
         IN CASE formula.fn = "SUM" -> Num(SumNumeric(values))
              [] formula.fn = "COUNT" -> Num(CountNumeric(values))
              [] OTHER -> formula

\* ------------------------------------------------------------- the store
\* The part of the store that the history operations read and write.
Store == [ cells |-> cells, rows |-> rows, cols |-> cols,
           history |-> history, historyIndex |-> historyIndex ]

\* Object identities are labels: the objects reachable from the store are
\* relabelled 1, 2, ... in the order of their allocation.
bornOf(s) ==
    { s.cells[i].born : i \in DOMAIN s.cells }
        \cup UNION { { s.history[k].cells[i].born : i \in DOMAIN s.history[k].cells } : k \in DOMAIN s.history }

relabel(m, used) ==
    [ i \in DOMAIN m |-> [m[i] EXCEPT !.born = Cardinality({ b \in used : b <= m[i].born })] ]

Normalized(s) ==
    LET used == bornOf(s)
    IN [s EXCEPT !.cells = relabel(s.cells, used),
                 !.history = [ k \in DOMAIN s.history |->
                                 [s.history[k] EXCEPT !.cells = relabel(@, used)] ]]

\* set(...) of the store.
Write(n) ==
    /\ cells' = n.cells
    /\ rows' = n.rows
    /\ cols' = n.cols
    /\ history' = n.history
    /\ historyIndex' = n.historyIndex

\* The identity of the objects a step allocates: later than every object of the store.
Fresh == Cardinality(bornOf(Store)) + 1

\* saveState that keeps the entries after historyIndex.
saveState_keepsRedo(s) ==
    LET currentState == [cells |-> s.cells, rows |-> s.rows, cols |-> s.cols]
        pushed == Append(s.history, currentState)
        newHistory == IF Len(pushed) > MAX_HISTORY THEN Tail(pushed) ELSE pushed
    IN [s EXCEPT !.history = newHistory, !.historyIndex = Len(newHistory) - 1]

\* saveState that drops the newest entry when the bound is exceeded.
saveState_dropsNewest(s) ==
    LET currentState == [cells |-> s.cells, rows |-> s.rows, cols |-> s.cols]
        truncated == IF s.historyIndex < Len(s.history) - 1
                     THEN SubSeq(s.history, 1, s.historyIndex + 1)
                     ELSE s.history
        pushed == Append(truncated, currentState)
        newHistory == IF Len(pushed) > MAX_HISTORY THEN SubSeq(pushed, 1, MAX_HISTORY) ELSE pushed
    IN [s EXCEPT !.history = newHistory, !.historyIndex = Len(newHistory) - 1]

\* saveState that never drops the oldest entry.
saveState_unbounded(s) ==
    LET currentState == [cells |-> s.cells, rows |-> s.rows, cols |-> s.cols]
        truncated == IF s.historyIndex < Len(s.history) - 1
                     THEN SubSeq(s.history, 1, s.historyIndex + 1)
                     ELSE s.history
        newHistory == Append(truncated, currentState)
    IN [s EXCEPT !.history = newHistory, !.historyIndex = Len(newHistory) - 1]

\* history is a JavaScript array (index 0 first): history[k] is history[k + 1] here.
saveState(s) ==
    LET currentState == [cells |-> s.cells, rows |-> s.rows, cols |-> s.cols]
        truncated == IF s.historyIndex < Len(s.history) - 1
                     THEN SubSeq(s.history, 1, s.historyIndex + 1)
                     ELSE s.history
        pushed == Append(truncated, currentState)
        newHistory == IF Len(pushed) > MAX_HISTORY THEN Tail(pushed) ELSE pushed
    IN [s EXCEPT !.history = newHistory, !.historyIndex = Len(newHistory) - 1]

\* undo that restores the entry at historyIndex itself.
undo_sameEntry(s) ==
    IF s.historyIndex <= 0 THEN s
    ELSE LET newIndex == s.historyIndex - 1
             previousState == s.history[s.historyIndex + 1]
         IN [s EXCEPT !.cells = previousState.cells, !.rows = previousState.rows,
                      !.cols = previousState.cols, !.historyIndex = newIndex]

\* undo that restores the earliest entry again when it is already there.
undo_clamped(s) ==
    IF s.historyIndex < 0 THEN s
    ELSE LET newIndex == IF s.historyIndex - 1 > 0 THEN s.historyIndex - 1 ELSE 0
             previousState == s.history[newIndex + 1]
         IN [s EXCEPT !.cells = previousState.cells, !.rows = previousState.rows,
                      !.cols = previousState.cols, !.historyIndex = newIndex]

undo(s) ==
    IF s.historyIndex <= 0 THEN s
    ELSE LET newIndex == s.historyIndex - 1
             previousState == s.history[newIndex + 1]
         IN [s EXCEPT !.cells = previousState.cells, !.rows = previousState.rows,
                      !.cols = previousState.cols, !.historyIndex = newIndex]

redo(s) ==
    IF s.historyIndex >= Len(s.history) - 1 THEN s
    ELSE LET newIndex == s.historyIndex + 1
             nextState == s.history[newIndex + 1]
         IN [s EXCEPT !.cells = nextState.cells, !.rows = nextState.rows,
                      !.cols = nextState.cols, !.historyIndex = newIndex]

addRow(s) == [saveState(s) EXCEPT !.rows = s.rows + 1]

deleteRow(s) == [saveState(s) EXCEPT !.rows = IF s.rows - 1 > 1 THEN s.rows - 1 ELSE 1]

addColumn(s) == [saveState(s) EXCEPT !.cols = s.cols + 1]

deleteColumn(s) == [saveState(s) EXCEPT !.cols = IF s.cols - 1 > 1 THEN s.cols - 1 ELSE 1]

updateCell(s, id, data, tick) ==
    LET saved == saveState(s)
        old == IF Has(saved.cells, id) THEN Lookup(saved.cells, id) ELSE createEmptyCell
    IN [saved EXCEPT !.cells = Put(saved.cells, id, Spread(old, data), tick)]

\* ------------------------------------------- the Cell component's effect
\* const cell = cells[id] || { value: '', formula: '', style: ... }
cellOf(m, id) == IF Has(m, id) THEN Lookup(m, id) ELSE createEmptyCell

\* if (cell.formula): a non-empty text
truthy(text) == text # Str("")

\* The value the effect of Cell `id` computes from the cells it was rendered with.
effectValue(m, id) == evaluateFormula(cellOf(m, id).formula, m)

\* The condition under which the effect of Cell `id` calls updateCell.
effectFires(m, id) ==
    /\ truthy(cellOf(m, id).formula)
    /\ effectValue(m, id) # cellOf(m, id).value

\* The render of a grid: the calls of updateCell that the effects of the
\* rendered Cells make, in render order.  Every effect evaluates over m, the
\* cells of that render.
pendingEffects(m, r, c) ==
    LET fired == SelectSeq(RenderedIds(r, c), LAMBDA id : effectFires(m, id))
    IN [ i \in DOMAIN fired |-> [id |-> fired[i], value |-> effectValue(m, fired[i])] ]

\* The scheduled effects run one after the other; each writes through
\* updateCell into the store as the effects before it left it.
RECURSIVE runEffects(_, _, _)
runEffects(s, scheduled, tick) ==
    IF scheduled = << >> THEN s
    ELSE CHOOSE result \in
            { runEffects(next, Tail(scheduled), tick) :
                next \in { updateCell(s, Head(scheduled).id, [value |-> Head(scheduled).value], tick) } } :
            TRUE

\* No effect is scheduled that would call updateCell.
Quiescent == effects = << >>

\* A change of the store: the new state is written and the grid is rendered.
Render == effects' = pendingEffects(cells', rows', cols')

SetStore(s) == (\E n \in { Normalized(s) } : Write(n)) /\ Render

\* ------------------------------------------------ selection and clipboard
Min(a, b) == IF a < b THEN a ELSE b

Max(a, b) == IF a > b THEN a ELSE b

\* getSelectionBetween that loops from the start corner to the end corner.
getSelectionBetween_ordered(start, end) ==
    LET minCol == columnLetterToIndex(start.col)
        maxCol == columnLetterToIndex(end.col)
        minRow == start.row
        maxRow == end.row
        w == Max(maxCol - minCol + 1, 0)
        n == w * Max(maxRow - minRow + 1, 0)
    IN [ i \in 1..n |->
           CellId(indexToColumnLetter(minCol + ((i - 1) % w)), minRow + ((i - 1) \div w)) ]

\* Rows outer, columns inner.
getSelectionBetween(start, end) ==
    LET startColIndex == columnLetterToIndex(start.col)
        endColIndex == columnLetterToIndex(end.col)
        minCol == Min(startColIndex, endColIndex)
        maxCol == Max(startColIndex, endColIndex)
        minRow == Min(start.row, end.row)
        maxRow == Max(start.row, end.row)
        w == maxCol - minCol + 1
        n == w * (maxRow - minRow + 1)
    IN [ i \in 1..n |->
           CellId(indexToColumnLetter(minCol + ((i - 1) % w)), minRow + ((i - 1) \div w)) ]

SetMin(S) == CHOOSE x \in S : \A y \in S : x <= y

SetMax(S) == CHOOSE x \in S : \A y \in S : x >= y

getTopLeftCell(ids) ==
    CellId(indexToColumnLetter(SetMin({ columnLetterToIndex(ids[i].col) : i \in DOMAIN ids })),
           SetMin({ ids[i].row : i \in DOMAIN ids }))

getBottomRightCell(ids) ==
    CellId(indexToColumnLetter(SetMax({ columnLetterToIndex(ids[i].col) : i \in DOMAIN ids })),
           SetMax({ ids[i].row : i \in DOMAIN ids }))

\* cellsToCopy: a copy of every selected cell that is stored, in selection order.
RECURSIVE cellsToCopy(_, _, _, _)
cellsToCopy(acc, m, ids, tick) ==
    IF ids = << >> THEN acc
    ELSE cellsToCopy(
            IF Has(m, Head(ids)) THEN Put(acc, Head(ids), Lookup(m, Head(ids)), tick) ELSE acc,
            m, Tail(ids), tick)

copySelectedCells(m, ids, tick) ==
    [ cells |-> cellsToCopy(<< >>, m, ids, tick),
      topLeft |-> getTopLeftCell(ids),
      bottomRight |-> getBottomRightCell(ids) ]

\* The forEach of pasteCells without its bounds test.
RECURSIVE pasteEntries_noBounds(_, _, _, _, _, _, _)
pasteEntries_noBounds(newCells, copied, colOffset, rowOffset, r, c, tick) ==
    IF copied = << >> THEN newCells
    ELSE LET e == Head(copied)
             newColIndex == columnLetterToIndex(e.id.col) + colOffset
             newRow == e.id.row + rowOffset
             newCellId == CellId(indexToColumnLetter(newColIndex), newRow)
         IN pasteEntries_noBounds(Put(newCells, newCellId, e.cell, tick), Tail(copied),
                                  colOffset, rowOffset, r, c, tick)

\* The forEach of pasteCells over the copied cells.
RECURSIVE pasteEntries(_, _, _, _, _, _, _)
pasteEntries(newCells, copied, colOffset, rowOffset, r, c, tick) ==
    IF copied = << >> THEN newCells
    ELSE LET e == Head(copied)
             newColIndex == columnLetterToIndex(e.id.col) + colOffset
             newRow == e.id.row + rowOffset
             skip == newColIndex < 0 \/ newColIndex >= c \/ newRow <= 0 \/ newRow > r
             newCellId == CellId(indexToColumnLetter(newColIndex), newRow)
             written == IF skip THEN newCells ELSE Put(newCells, newCellId, e.cell, tick)
         IN pasteEntries(written, Tail(copied), colOffset, rowOffset, r, c, tick)

\* pasteCells that starts from an empty map instead of a copy of the cells.
pasteCells_dropsOthers(s, clip, targetCellId, tick) ==
    LET saved == saveState(s)
    IN IF clip = Null THEN saved
       ELSE LET colOffset == columnLetterToIndex(targetCellId.col) - columnLetterToIndex(clip.topLeft.col)
                rowOffset == targetCellId.row - clip.topLeft.row
            IN [saved EXCEPT !.cells =
                   pasteEntries(<< >>, clip.cells, colOffset, rowOffset, saved.rows, saved.cols, tick)]

pasteCells(s, clip, targetCellId, tick) ==
    LET saved == saveState(s)
    IN IF clip = Null THEN saved
       ELSE LET colOffset == columnLetterToIndex(targetCellId.col) - columnLetterToIndex(clip.topLeft.col)
                rowOffset == targetCellId.row - clip.topLeft.row
            IN [saved EXCEPT !.cells =
                   pasteEntries(saved.cells, clip.cells, colOffset, rowOffset, saved.rows, saved.cols, tick)]

\* createCellId(row + rowOffset, col + colOffset) of pasteSelection: col is the
\* column text of parseCellId, so col + colOffset is that text followed by the
\* number, and the key is the column letters, the offset, then the row.  With
\* fewer than ten rows such a key is the address of no rendered cell.
OffsetKey(col, colOffset, row) == [col |-> col, off |-> colOffset, row |-> row]

\* { ...createEmptyCell(), value, formula, style: { ...style } }
pastedCell(cell) ==
    Spread(createEmptyCell, [value |-> cell.value, formula |-> cell.formula, style |-> cell.style])

\* One copied cell into every selected cell.
RECURSIVE pasteFill(_, _, _, _)
pasteFill(newCells, ids, sourceCell, tick) ==
    IF ids = << >> THEN newCells
    ELSE pasteFill(Put(newCells, Head(ids), pastedCell(sourceCell), tick), Tail(ids), sourceCell, tick)

\* data.forEach of pasteSelection
RECURSIVE pasteData(_, _, _, _, _)
pasteData(newCells, data, colOffset, rowOffset, tick) ==
    IF data = << >> THEN newCells
    ELSE LET e == Head(data)
             newCellId == OffsetKey(e.id.col, colOffset, e.id.row + rowOffset)
         IN pasteData(Put(newCells, newCellId, pastedCell(e.cell), tick), Tail(data),
                      colOffset, rowOffset, tick)

calculatePasteOffset(sourceCellIds, targetCellId) ==
    IF sourceCellIds = << >> THEN [rowOffset |-> 0, colOffset |-> 0]
    ELSE [ rowOffset |-> targetCellId.row
                           - SetMin({ sourceCellIds[i].row : i \in DOMAIN sourceCellIds }),
           colOffset |-> columnLetterToIndex(targetCellId.col)
                           - SetMin({ columnLetterToIndex(sourceCellIds[i].col) :
                                        i \in DOMAIN sourceCellIds }) ]

\* pasteSelection: saveState, then the `data` of a cut clipboard, or pasteCells
\* (which calls saveState again) for a clipboard that has only `cells`.
pasteSelection(s, clip, target, ids, tick) ==
    LET saved == saveState(s)
    IN IF clip = Null \/ target = Null THEN saved
       ELSE IF "data" \in DOMAIN clip
       THEN IF clip.data = << >> THEN saved
            ELSE IF Len(clip.data) = 1 /\ Len(ids) > 1
            THEN [saved EXCEPT !.cells = pasteFill(saved.cells, ids, clip.data[1].cell, tick)]
            ELSE LET off == calculatePasteOffset([ i \in DOMAIN clip.data |-> clip.data[i].id ], target)
                 IN [saved EXCEPT !.cells =
                        pasteData(saved.cells, clip.data, off.colOffset, off.rowOffset, tick)]
       ELSE pasteCells(saved, clip, target, tick)

\* state.selectedCells.reduce(...): every selected id, absent cells as empty cells.
RECURSIVE cutSnapshot(_, _, _, _)
cutSnapshot(acc, m, ids, tick) ==
    IF ids = << >> THEN acc
    ELSE cutSnapshot(Put(acc, Head(ids), cellOf(m, Head(ids)), tick), m, Tail(ids), tick)

RECURSIVE clearCut(_, _, _)
clearCut(newCells, ids, tick) ==
    IF ids = << >> THEN newCells
    ELSE clearCut(Put(newCells, Head(ids), createEmptyCell, tick), Tail(ids), tick)

\* A cut that fills the clipboard from the cells already cleared.
cutClipboard_afterClear(m, ids, tick) ==
    [ type |-> "cut",
      data |-> [ i \in DOMAIN ids |-> [id |-> ids[i], cell |-> createEmptyCell] ],
      cells |-> cutSnapshot(<< >>, clearCut(m, ids, tick), ids, tick),
      topLeft |-> getTopLeftCell(ids),
      bottomRight |-> getBottomRightCell(ids) ]

cutClipboard(m, ids, tick) ==
    [ type |-> "cut",
      data |-> [ i \in DOMAIN ids |-> [id |-> ids[i], cell |-> cellOf(m, ids[i])] ],
      cells |-> cutSnapshot(<< >>, m, ids, tick),
      topLeft |-> getTopLeftCell(ids),
      bottomRight |-> getBottomRightCell(ids) ]

\* Columns outer, rows inner.
clearedCells(r, c, tick) ==
    [ i \in 1..(r * c) |->
        [ id |-> CellId(indexToColumnLetter((i - 1) \div r), ((i - 1) % r) + 1),
          cell |-> createEmptyCell, born |-> tick ] ]

\* ------------------------------------------------------------- CSV import
\* A file is its lines, each line the fields the quote-aware split yields.
\* line.trim() is empty exactly for the line of one empty field.
isBlankLine(line) == line = << Str("") >>

importedCell(value) ==
    [ value |-> IF startsWithEq(value) THEN Str("") ELSE value,
      formula |-> IF startsWithEq(value) THEN value ELSE Str(""),
      style |-> createEmptyCell.style ]

RECURSIVE importFields(_, _, _, _, _)
importFields(newCells, line, rowIndex, colIndex, tick) ==
    IF colIndex >= Len(line) THEN newCells
    ELSE importFields(
            Put(newCells, CellId(indexToColumnLetter(colIndex), rowIndex + 1),
                importedCell(line[colIndex + 1]), tick),
            line, rowIndex, colIndex + 1, tick)

RECURSIVE importLines(_, _, _, _)
importLines(newCells, lines, rowIndex, tick) ==
    IF rowIndex >= Len(lines) THEN newCells
    ELSE importLines(
            IF isBlankLine(lines[rowIndex + 1]) THEN newCells
            ELSE importFields(newCells, lines[rowIndex + 1], rowIndex, 0, tick),
            lines, rowIndex + 1, tick)

importMaxRow(lines) ==
    SetMax({0} \cup { i - 1 : i \in { j \in DOMAIN lines : ~isBlankLine(lines[j]) } })

importMaxCol(lines) ==
    SetMax({0} \cup { Len(lines[i]) - 1 : i \in { j \in DOMAIN lines : ~isBlankLine(lines[j]) } })

\* The timer callback: every formula cell of the map, in key order, has its
\* value assigned in place; later cells read the values assigned before them.
RECURSIVE evaluateInPlace(_, _)
evaluateInPlace(updatedCells, i) ==
    IF i > Len(updatedCells) THEN updatedCells
    ELSE LET cell == updatedCells[i].cell
         IN evaluateInPlace(
               IF startsWithEq(cell.formula)
               THEN [updatedCells EXCEPT ![i].cell.value = evaluateFormula(cell.formula, updatedCells)]
               ELSE updatedCells,
               i + 1)

\* A map that shares cell objects with `updated` sees their assigned values.
aliased(m, updated) ==
    [ i \in DOMAIN m |->
        IF \E j \in DOMAIN updated : updated[j].id = m[i].id /\ updated[j].born = m[i].born
        THEN updated[CHOOSE j \in DOMAIN updated : updated[j].id = m[i].id /\ updated[j].born = m[i].born]
        ELSE m[i] ]

\* ------------------------------------------------------------------ inputs
A1 == CellId(<< 1 >>, 1)

A2 == CellId(<< 1 >>, 2)

B1 == CellId(<< 2 >>, 1)

B2 == CellId(<< 2 >>, 2)

SumA1A2 == Fml("SUM", << Ref(<< 1 >>, 1), Ref(<< 1 >>, 2) >>)

SumB1 == Fml("SUM", << Ref(<< 2 >>, 1) >>)

\* What the user types where: << id, text >>.
Edits == { << A1, Num(1) >>, << A1, Num(2) >>, << B1, SumA1A2 >>, << A1, SumA1A2 >> }

LiveEdits == { A1, A2, B1 } \X { Num(1), Num(2), SumA1A2, SumB1 }

\* The cells the user presses the mouse on and drags over.
ClickIds == { A1 }

\* What the user types into the formula bar.
BarTexts == { Num(1), SumA1A2 }

DragIds == { B2 }

\* What the user types, clicks, drags over and shift-clicks where the
\* clipboard is explored.
ClipEdits == { << A2, Num(1) >>, << B1, Num(2) >> }

ClipClickIds == { A1, A2, B1, B2 }

ClipDragIds == { A1, B1, B2 }

ClipShiftIds == { A1, B2 }

\* The files the user imports: A1 = 2, B1 = SUM(A1:A2).
Files == << << << Num(2), SumA1A2 >> >> >>

\* ----------------------------------------------------------------- actions
\* lastOp records the step just taken: the operation, its argument and the
\* position and length of the history it started from.
Did(op, id) == [op |-> op, id |-> id, hi |-> historyIndex, hl |-> Len(history)]

\* An operation of the user; at most `budget` of them are explored.
UserOp(op, id) ==
    /\ budget > 0
    /\ budget' = budget - 1
    /\ lastOp' = Did(op, id)

\* Cell.handleChange
HandleChange(id, newValue) ==
    /\ IsRendered(id, rows, cols)
    /\ UserOp("handleChange", id)
    /\ SetStore(updateCell(Store, id,
          [ value |-> newValue,
            formula |-> IF startsWithEq(newValue) THEN newValue ELSE Str("") ],
          Fresh))
    /\ UNCHANGED << selection, clipboard, async >>

\* FormulaBar.handleChange: the text goes to the selected cell.
FormulaBarChange(newValue) ==
    /\ selectedCell # Null
    /\ UserOp("formulaBar", selectedCell)
    /\ SetStore(updateCell(Store, selectedCell,
          [ formula |-> newValue,
            value |-> IF startsWithEq(newValue) THEN Str("") ELSE newValue ],
          Fresh))
    /\ UNCHANGED << selection, clipboard, async >>

\* Values beyond MaxVal are not explored.
InRange(m) == \A i \in DOMAIN m : m[i].cell.value.t = "num" => m[i].cell.value.n <= MaxVal

\* The scheduled effects run, none interleaved with an operation of the user.
RunEffects ==
    /\ effects # << >>
    /\ \E after \in { runEffects(Store, effects, Fresh) } :
          /\ InRange(after.cells)
          /\ \E n \in { Normalized(after) } : Write(n)
    /\ lastOp' = Did("effects", Null)
    /\ UNCHANGED << selection, clipboard, async, budget >>

\* The effects run and the grid they leave is rendered.
CellEffects == RunEffects /\ Render

\* Undo that also clears the selection.
Undo_clearsSelection ==
    /\ UserOp("undo", Null)
    /\ SetStore(undo(Store))
    /\ selectedCells' = << >>
    /\ UNCHANGED << selectedCell, isDragging, dragStart, dragStartCell, clipboard, async >>

Undo ==
    /\ UserOp("undo", Null)
    /\ SetStore(undo(Store))
    /\ UNCHANGED << selection, clipboard, async >>

Redo ==
    /\ UserOp("redo", Null)
    /\ SetStore(redo(Store))
    /\ UNCHANGED << selection, clipboard, async >>

AddRow ==
    /\ rows < MaxRows
    /\ UserOp("addRow", Null)
    /\ SetStore(addRow(Store))
    /\ UNCHANGED << selection, clipboard, async >>

DeleteRow ==
    /\ UserOp("deleteRow", Null)
    /\ SetStore(deleteRow(Store))
    /\ UNCHANGED << selection, clipboard, async >>

AddColumn ==
    /\ cols < MaxCols
    /\ UserOp("addColumn", Null)
    /\ SetStore(addColumn(Store))
    /\ UNCHANGED << selection, clipboard, async >>

DeleteColumn ==
    /\ UserOp("deleteColumn", Null)
    /\ SetStore(deleteColumn(Store))
    /\ UNCHANGED << selection, clipboard, async >>

\* Cell.handleMouseDown without the shift key
HandleMouseDown(id) ==
    /\ IsRendered(id, rows, cols)
    /\ UserOp("mouseDown", id)
    /\ selectedCell' = id
    /\ selectedCells' = << id >>
    /\ isDragging' = TRUE
    /\ dragStart' = id
    /\ dragStartCell' = id
    /\ UNCHANGED << store, clipboard, async >>

\* A click with the shift key on Cell `id`, without a drag: handleMouseDown,
\* then handleMouseUp -> endDrag, then onClick -> setSelectedCell(id).
ShiftClick(id) ==
    /\ IsRendered(id, rows, cols)
    /\ UserOp("shiftClick", id)
    /\ IF selectedCell # Null
       THEN /\ selectedCells' = getSelectionBetween(selectedCell, id)
            /\ UNCHANGED << dragStart, dragStartCell >>
       ELSE /\ selectedCells' = << id >>
            /\ dragStart' = id
            /\ dragStartCell' = id
    /\ isDragging' = FALSE
    /\ selectedCell' = id
    /\ UNCHANGED << store, clipboard, async >>

\* handleDrag that does not look at isDragging.
HandleDrag_ignoresDragging(cellId) ==
    /\ IsRendered(cellId, rows, cols)
    /\ UserOp("handleDrag", cellId)
    /\ IF dragStart = Null
       THEN UNCHANGED selectedCells
       ELSE selectedCells' = getSelectionBetween(dragStart, cellId)
    /\ UNCHANGED << store, clipboard, async,
                    selectedCell, isDragging, dragStart, dragStartCell >>

\* Cell.handleMouseEnter -> handleDrag
HandleDrag(cellId) ==
    /\ IsRendered(cellId, rows, cols)
    /\ UserOp("handleDrag", cellId)
    /\ IF ~isDragging \/ dragStart = Null
       THEN UNCHANGED selectedCells
       ELSE selectedCells' = getSelectionBetween(dragStart, cellId)
    /\ UNCHANGED << store, clipboard, async,
                    selectedCell, isDragging, dragStart, dragStartCell >>

\* Cell.handleMouseUp -> endDrag
EndDrag ==
    /\ UserOp("endDrag", Null)
    /\ isDragging' = FALSE
    /\ UNCHANGED << store, clipboard, async,
                    selectedCell, selectedCells, dragStart, dragStartCell >>

\* Toolbar.handleCopy
CopySelectedCells ==
    /\ UserOp("copy", Null)
    /\ IF selectedCells = << >>
       THEN UNCHANGED clipboard
       ELSE clipboard' = copySelectedCells(cells, selectedCells, 0)
    /\ UNCHANGED << store, selection, async >>

\* A paste that empties the clipboard once it is used.
PasteCells_consumesClipboard ==
    /\ selectedCell # Null
    /\ UserOp("paste", selectedCell)
    /\ SetStore(pasteCells(Store, clipboard, selectedCell, Fresh))
    /\ clipboard' = Null
    /\ UNCHANGED << selection, async >>

\* Toolbar.handlePaste
PasteCells ==
    /\ selectedCell # Null
    /\ UserOp("paste", selectedCell)
    /\ SetStore(pasteCells(Store, clipboard, selectedCell, Fresh))
    /\ UNCHANGED << selection, clipboard, async >>

PasteSelection ==
    /\ UserOp("pasteSelection", selectedCell)
    /\ SetStore(pasteSelection(Store, clipboard, selectedCell, selectedCells, Fresh))
    /\ UNCHANGED << selection, clipboard, async >>

CutSelection ==
    /\ UserOp("cut", Null)
    /\ LET saved == saveState(Store)
       IN IF selectedCells = << >>
          THEN SetStore(saved) /\ UNCHANGED clipboard
          ELSE /\ SetStore([saved EXCEPT !.cells = clearCut(saved.cells, selectedCells, Fresh)])
               /\ clipboard' = cutClipboard(saved.cells, selectedCells, 0)
    /\ UNCHANGED << selection, async >>

\* clearSpreadsheet, the dialog confirmed (cancelled, the store is not called).
ClearSpreadsheet ==
    /\ UserOp("clear", Null)
    /\ LET saved == saveState(Store)
       IN SetStore([saved EXCEPT !.cells = clearedCells(saved.rows, saved.cols, Fresh)])
    /\ UNCHANGED << selection, clipboard, async >>

\* importFromCSV: the call saves the state and starts the read.
ImportFromCSV(f) ==
    /\ UserOp("import", Null)
    /\ SetStore(saveState(Store))
    /\ reads' = [reads EXCEPT ![f] = @ + 1]
    /\ UNCHANGED << selection, clipboard, timers >>

\* reader.onload: the parsed cells replace the grid and the timer is set.
ImportLoad(f) ==
    /\ reads[f] > 0
    /\ reads' = [reads EXCEPT ![f] = @ - 1]
    /\ SetStore([Store EXCEPT !.cells = importLines(<< >>, Files[f], 0, Fresh),
                              !.rows = Max(rows, importMaxRow(Files[f]) + 1),
                              !.cols = Max(cols, importMaxCol(Files[f]) + 1)])
    /\ timers' = timers + 1
    /\ lastOp' = Did("importLoad", Null)
    /\ UNCHANGED << selection, clipboard, budget >>

\* The setTimeout callback of reader.onload.
ImportEvaluate ==
    /\ timers > 0
    /\ timers' = timers - 1
    /\ LET updatedCells == evaluateInPlace(cells, 1)
       IN SetStore([Store EXCEPT !.cells = updatedCells,
                                 !.history = [ i \in DOMAIN history |->
                                                 [history[i] EXCEPT !.cells = aliased(@, updatedCells)] ]])
    /\ lastOp' = Did("importEvaluate", Null)
    /\ UNCHANGED << selection, clipboard, reads, budget >>

\* ----------------------------------------------------------- specification
InitStore ==
    /\ cells = << >>
    /\ selectedCell = Null
    /\ selectedCells = << >>
    /\ rows = DEFAULT_ROWS
    /\ cols = DEFAULT_COLS
    /\ isDragging = FALSE
    /\ dragStart = Null
    /\ dragStartCell = Null
    /\ clipboard = Null
    /\ history = << >>
    /\ historyIndex = -1
    /\ effects = << >>
    /\ reads = [ f \in DOMAIN Files |-> 0 ]
    /\ timers = 0
    /\ lastOp = [op |-> "init", id |-> Null, hi |-> -1, hl |-> 0]

Init == InitStore /\ budget = MaxOps

Next ==
    \/ \E e \in Edits : HandleChange(e[1], e[2])
    \/ \E text \in BarTexts : FormulaBarChange(text)
    \/ CellEffects
    \/ Undo
    \/ Redo
    \/ AddRow
    \/ DeleteRow
    \/ AddColumn
    \/ DeleteColumn
    \/ \E id \in ClickIds : HandleMouseDown(id)
    \/ \E id \in DragIds : HandleDrag(id)
    \/ EndDrag
    \/ CopySelectedCells
    \/ PasteCells
    \/ PasteSelection
    \/ CutSelection
    \/ ClearSpreadsheet
    \/ \E f \in DOMAIN Files : ImportFromCSV(f)
    \/ \E f \in DOMAIN Files : ImportLoad(f)
    \/ ImportEvaluate

Spec == Init /\ [][Next]_vars

\* The address functions alone: the store stays as constructed and lastOp
\* records the call just made, its input and its result.
RangeCorners == { CellId(indexToColumnLetter(c), r) : c \in 0..(MaxCols - 1), r \in 1..MaxRows }

RefOf(id) == Ref(id.col, id.row)

\* parseRange of the text `start:end`
ParseRangeCall(start, end) ==
    /\ lastOp' = [ op |-> "parseRange", id |-> << start, end >>,
                   out |-> parseRange(<< RefOf(start), RefOf(end) >>),
                   hi |-> historyIndex, hl |-> Len(history) ]
    /\ UNCHANGED << store, selection, clipboard, async, budget >>

\* parseReference of the text of column index c and row r:
\* indexToColumnLetter(c) followed by r.
ParseReferenceCall(c, r) ==
    /\ lastOp' = [ op |-> "parseReference", id |-> << c, r >>,
                   out |-> parseReference(Ref(indexToColumnLetter(c), r)),
                   hi |-> historyIndex, hl |-> Len(history) ]
    /\ UNCHANGED << store, selection, clipboard, async, budget >>

InitRef == InitStore /\ budget = 0

NextRef ==
    \/ \E start \in RangeCorners, end \in RangeCorners : ParseRangeCall(start, end)
    \/ \E c \in 0..MaxColIndex, r \in 1..MaxRefRow : ParseReferenceCall(c, r)

RefSpec == InitRef /\ [][NextRef]_vars

\* Recalculation alone: edits and the effects, which React runs after every
\* render.
InitLive == InitStore /\ budget = MaxLiveOps

NextLive ==
    \/ \E e \in LiveEdits : HandleChange(e[1], e[2])
    \/ CellEffects

\* React runs the scheduled effects after every render.  A step of RunEffects
\* under NextLive is a step of CellEffects, it changes `cells`, and the one
\* is enabled exactly when the other is.
LiveSpec == InitLive /\ [][NextLive]_vars /\ WF_shown(RunEffects)

\* Selection and clipboard: the gestures of the mouse, copy, cut and paste on
\* a grid of plain values.
InitClip == InitStore /\ budget = MaxClipOps

NextClip ==
    \/ \E e \in ClipEdits : HandleChange(e[1], e[2])
    \/ \E id \in ClipClickIds : HandleMouseDown(id)
    \/ \E id \in ClipDragIds : HandleDrag(id)
    \/ \E id \in ClipShiftIds : ShiftClick(id)
    \/ EndDrag
    \/ CopySelectedCells
    \/ PasteCells
    \/ CutSelection
    \/ Undo
    \/ DeleteRow

ClipSpec == InitClip /\ [][NextClip]_vars

\* ============================================================ properties
\* A map of cells without the identities of its objects.
plain(m) == [ i \in DOMAIN m |-> [id |-> m[i].id, cell |-> m[i].cell] ]

plainEntry(h) == [cells |-> plain(h.cells), rows |-> h.rows, cols |-> h.cols]

plainHistory(h) == [ k \in DOMAIN h |-> plainEntry(h[k]) ]

\* The grid as a history entry holds it.
Grid == [cells |-> plain(cells), rows |-> rows, cols |-> cols]

StoredIds(m) == { m[i].id : i \in DOMAIN m }

\* The addresses the formula of cell f ranges over.
DepsOf(m, f) ==
    IF Has(m, f) /\ startsWithEq(Lookup(m, f).formula)
    THEN LET range == parseRange(Lookup(m, f).formula.parts)
         IN { range[i] : i \in DOMAIN range }
    ELSE {}

\* The value of cell f is the evaluation of its formula over the cells.
UpToDate(m, f) == Lookup(m, f).value = evaluateFormula(Lookup(m, f).formula, m)

\* The formula cells other than x whose range contains x.
Dependents(m, x) == { f \in StoredIds(m) \ {x} : x \in DepsOf(m, f) }

RECURSIVE DepsClosure(_, _, _)
DepsClosure(m, S, n) ==
    IF n = 0 THEN S
    ELSE DepsClosure(m, S \cup UNION { DepsOf(m, f) : f \in S }, n - 1)

\* Cell f depends on itself, directly or through other formula cells.
Circular(m, f) == f \in DepsClosure(m, DepsOf(m, f), Len(m))

CircularToken == Str("#CIRCULAR")

\* The scheduled effects would write a value beyond the explored range.
Overflow == effects # << >> /\ ~InRange(runEffects(Store, effects, Fresh).cells)

\* The last step was the user's last edit, of cell x, and changed its value.
LastEditChanged(x) ==
    /\ budget = 0
    /\ lastOp.op = "handleChange"
    /\ lastOp.id = x
    /\ getCellValue(history[Len(history)].cells, x) # getCellValue(cells, x)

\* C1: once the user has stopped after an edit that changed the value of a
\* cell x, every formula cell whose range contains x eventually holds the
\* evaluation of its formula over the current cells (or the values leave the
\* explored range).
C1_DependentsRecalculated ==
    \A x \in { A1, A2, B1 } :
        LastEditChanged(x) ~> (Overflow \/ \A f \in Dependents(cells, x) : UpToDate(cells, f))

\* After a write, formula cell f still holds the value that was computed
\* from the cells as they were before the write, and no longer the
\* evaluation of its formula.  The last history entry is the grid before
\* the write.
HoldsOldValue(f) ==
    LET before == history[Len(history)].cells
    IN /\ Has(before, f)
       /\ UpToDate(before, f)
       /\ Lookup(cells, f) = Lookup(before, f)
       /\ ~UpToDate(cells, f)

\* C2: an operation of the user that follows a write to cell x never starts
\* from a state in which a formula cell whose range contains x still holds
\* the value computed from the old input.
C2_RecalculationAtomic ==
    [][ (lastOp.op = "handleChange" /\ budget' < budget)
            => \A f \in Dependents(cells, lastOp.id) : ~HoldsOldValue(f) ]_vars

\* C3: recalculation always comes to rest: from some point on no effect of
\* a rendered formula cell changes a value or calls updateCell any more (or
\* the values leave the explored range).
C3_ReachesQuiescence == <>[]Quiescent \/ <>Overflow

\* C4: once recalculation has come to rest, a rendered formula cell that
\* depends on itself, directly or through other formula cells, holds the
\* circular-error token.
C4_CircularToken ==
    Quiescent =>
        \A f \in StoredIds(cells) :
            (IsRendered(f, rows, cols) /\ Circular(cells, f)) => Lookup(cells, f).value = CircularToken

\* ------------------------------------------------------- history claims
\* The operations of the user that call saveState, once each.
MutatingOps ==
    { "handleChange", "formulaBar", "addRow", "deleteRow", "addColumn", "deleteColumn",
      "paste", "cut", "clear", "import" }

\* The step is the operation op of the user.
UserStep(op) == lastOp'.op = op /\ budget' < budget

MutatingStep == \E op \in MutatingOps : UserStep(op)

\* What saveState appends to: the entries up to historyIndex, then the grid.
Pushed == Append(SubSeq(plainHistory(history), 1, historyIndex + 1), Grid)

\* C5: a mutating operation that starts after an undo (historyIndex before
\* the last entry) leaves historyIndex at the last position of history,
\* leaves redo a no-op and keeps no entry that was after historyIndex: the
\* history is at most the entries up to historyIndex and the new one.
C5_RedoDiscarded ==
    [][ (MutatingStep /\ historyIndex < Len(history) - 1)
            => /\ historyIndex' = Len(history') - 1
               /\ redo(Store)' = Store'
               /\ Len(history') <= historyIndex + 2
               /\ \A k \in 1..(Len(history') - 1) :
                     \E j \in 1..(historyIndex + 1) :
                        plainEntry(history'[k]) = plainEntry(history[j]) ]_vars

C5_Witness ==
    /\ lastOp.op \in MutatingOps
    /\ lastOp.hi >= 0
    /\ lastOp.hi < lastOp.hl - 1

\* C6: undo at historyIndex = i > 0 moves to i - 1 and restores the grid of
\* history[i - 1]; redo at i < length - 1 moves to i + 1 and restores the
\* grid of history[i + 1]; redo at the last entry changes nothing.
C6_UndoRedoStep ==
    [][ /\ (UserStep("undo") /\ historyIndex > 0)
            => /\ historyIndex' = historyIndex - 1
               /\ Grid' = plainEntry(history[historyIndex])
        /\ (UserStep("redo") /\ historyIndex < Len(history) - 1)
            => /\ historyIndex' = historyIndex + 1
               /\ Grid' = plainEntry(history[historyIndex + 2])
        /\ (UserStep("redo") /\ historyIndex >= Len(history) - 1)
            => UNCHANGED << cells, rows, cols, history, historyIndex >> ]_vars

C6_Witness ==
    /\ lastOp.op = "redo"
    /\ lastOp.hi < lastOp.hl - 1
    /\ historyIndex = lastOp.hi + 1

\* C7: undo with an empty history or with historyIndex at the earliest
\* entry leaves cells, rows, cols, history and historyIndex as they were.
C7_UndoAtEarliest ==
    [][ (UserStep("undo") /\ (history = << >> \/ historyIndex <= 0))
            => UNCHANGED << cells, rows, cols, history, historyIndex >> ]_vars

C7_Witness ==
    /\ lastOp.op = "undo"
    /\ lastOp.hi = 0
    /\ lastOp.hl > 1

C9_SnapshotBeforeChange ==
    [][ /\ (\E op \in MutatingOps \ { "import" } : UserStep(op))
            => plainEntry(history'[Len(history')]) = Grid
        /\ lastOp'.op = "importLoad"
            => \E k \in DOMAIN history : plainEntry(history[k]) = Grid ]_vars

\* C10: undo and redo leave the selection, the drag state, the clipboard
\* and the entries of the history as they were.
C10_UndoRedoFrame ==
    [][ (UserStep("undo") \/ UserStep("redo"))
            => /\ UNCHANGED << selectedCell, selectedCells, isDragging, dragStart, clipboard >>
               /\ plainHistory(history') = plainHistory(history) ]_vars

C10_Witness ==
    /\ lastOp.op = "undo"
    /\ lastOp.hi > 0
    /\ historyIndex = lastOp.hi - 1
    /\ selectedCells # << >>

\* ----------------------------------------------------- clipboard claims
ColIdx(id) == columnLetterToIndex(id.col)

\* The addresses of the copied rectangle: the bounding rectangle the
\* clipboard holds the corners of.
ClipRect ==
    { CellId(indexToColumnLetter(c), r) :
        c \in ColIdx(clipboard.topLeft)..ColIdx(clipboard.bottomRight),
        r \in (clipboard.topLeft.row)..(clipboard.bottomRight.row) }

\* Where address a of the copied rectangle lands when pasted at target.
DestCol(a, target) == ColIdx(a) + ColIdx(target) - ColIdx(clipboard.topLeft)

DestRow(a, target) == a.row + target.row - clipboard.topLeft.row

InGrid(colIndex, row, r, c) == colIndex >= 0 /\ colIndex < c /\ row >= 1 /\ row <= r

Dest(a, target) == CellId(indexToColumnLetter(DestCol(a, target)), DestRow(a, target))

\* The source cell a as the clipboard captured it; an address without a
\* stored cell counts as the empty cell.
CopiedCell(a) == IF Has(clipboard.cells, a) THEN Lookup(clipboard.cells, a) ELSE createEmptyCell

\* C11: after a paste whose whole destination rectangle lies inside the
\* grid, every destination cell holds the value, formula and style of its
\* source cell as copied, the empty cell for a source address without a
\* stored cell.
C11_PasteCopiesRectangle ==
    [][ ( /\ UserStep("paste")
          /\ clipboard # Null
          /\ \A a \in ClipRect :
                InGrid(DestCol(a, selectedCell), DestRow(a, selectedCell), rows, cols) )
            => \A a \in ClipRect : cellOf(cells', Dest(a, selectedCell)) = CopiedCell(a) ]_vars

\* The destination rectangle: the copied rectangle moved so that its
\* top-left corner is the target.
DestRect(target) == { Dest(a, target) : a \in ClipRect }

\* Address id holds the same in both maps: no cell, or the same cell.
SameAt(m1, m2, id) ==
    /\ Has(m1, id) <=> Has(m2, id)
    /\ Has(m1, id) => Lookup(m1, id) = Lookup(m2, id)

\* C12: a paste leaves rows and cols and every cell outside the destination
\* rectangle as they were.
C12_PasteFrame ==
    [][ UserStep("paste")
            => /\ rows' = rows
               /\ cols' = cols
               /\ \A id \in StoredIds(cells) \cup StoredIds(cells') :
                     (clipboard = Null \/ id \notin DestRect(selectedCell))
                        => SameAt(cells, cells', id) ]_vars

\* A paste has changed the grid while a cell is stored outside the
\* destination rectangle.
C12_Witness ==
    /\ lastOp.op = "paste"
    /\ clipboard # Null
    /\ Grid # plainEntry(history[Len(history)])
    /\ \E id \in StoredIds(cells) : id \notin DestRect(selectedCell)

\* The addresses the clipboard holds a cell for.
ClipIds == IF clipboard = Null THEN {} ELSE StoredIds(clipboard.cells)

\* The destination of the copied cell at a lies inside the grid.
DestInGrid(a, target) == InGrid(DestCol(a, target), DestRow(a, target), rows, cols)

\* C13: a paste writes the copied cells whose destination lies inside the
\* grid and skips the others: rows and cols stay, no cell appears outside the
\* bounds, and every address that is not an in-bounds destination is untouched.
C13_PasteSkipsOutOfBounds ==
    [][ (UserStep("paste") /\ clipboard # Null)
            => /\ rows' = rows
               /\ cols' = cols
               /\ \A a \in ClipIds :
                     DestInGrid(a, selectedCell)
                        => cellOf(cells', Dest(a, selectedCell)) = Lookup(clipboard.cells, a)
               /\ \A id \in StoredIds(cells') \ StoredIds(cells) :
                     InGrid(ColIdx(id), id.row, rows, cols)
               /\ \A id \in StoredIds(cells) \cup StoredIds(cells') :
                     (\A a \in ClipIds : DestInGrid(a, selectedCell) => Dest(a, selectedCell) # id)
                        => SameAt(cells, cells', id) ]_vars

\* A paste has written a copied cell with a value to its in-bounds destination
\* while another copied cell's destination lies outside the grid.
C13_Witness ==
    /\ lastOp.op = "paste"
    /\ clipboard # Null
    /\ \E a \in ClipIds : ~DestInGrid(a, selectedCell)
    /\ \E a \in ClipIds :
          /\ DestInGrid(a, selectedCell)
          /\ Lookup(clipboard.cells, a).value # createEmptyCell.value
          /\ cellOf(cells, Dest(a, selectedCell)) = Lookup(clipboard.cells, a)
    /\ Grid # plainEntry(history[Len(history)])

\* C14: only a copy or a cut changes the clipboard: every other step (paste
\* by pasteCells or pasteSelection, an edit of a copied cell, undo, redo, a
\* row or column added or deleted, clear, import, a recalculation) leaves its
\* cells, topLeft and bottomRight as they were captured.
C14_ClipboardFrame ==
    [][ ~(UserStep("copy") \/ UserStep("cut")) => clipboard' = clipboard ]_vars

\* A paste has run with a clipboard that holds a cell, and still holds it.
C14_Witness ==
    /\ lastOp.op \in { "paste", "pasteSelection" }
    /\ clipboard # Null
    /\ clipboard.cells # << >>
    /\ historyIndex > lastOp.hi

\* The addresses of a sequence of ids.
IdsOf(ids) == { ids[i] : i \in DOMAIN ids }

\* What one call of saveState leaves: the entries up to historyIndex and the
\* grid, without the oldest entry when that exceeds MAX_HISTORY.
PushedOnce == IF Len(Pushed) > MAX_HISTORY THEN Tail(Pushed) ELSE Pushed

\* C15: a cut of a non-empty selection, in one step, leaves in the clipboard
\* the cells the selected addresses held before it (the empty cell for an
\* address without one), leaves every selected cell empty, and appends to the
\* history one entry, the grid before the cut.
C15_CutAtomic ==
    [][ (UserStep("cut") /\ selectedCells # << >>)
            => /\ clipboard' # Null
               /\ StoredIds(clipboard'.cells) = IdsOf(selectedCells)
               /\ \A id \in IdsOf(selectedCells) :
                     /\ Lookup(clipboard'.cells, id) = cellOf(cells, id)
                     /\ Has(cells', id)
                     /\ Lookup(cells', id) = createEmptyCell
               /\ \A id \in StoredIds(cells) \ IdsOf(selectedCells) : SameAt(cells, cells', id)
               /\ plainHistory(history') = PushedOnce
               /\ historyIndex' = Len(history') - 1
               /\ plainEntry(history'[Len(history')]) = Grid ]_vars

\* A cut of several cells has moved a value from the grid to the clipboard.
C15_Witness ==
    /\ lastOp.op = "cut"
    /\ Len(selectedCells) > 1
    /\ clipboard # Null
    /\ \E id \in IdsOf(selectedCells) :
          /\ Lookup(clipboard.cells, id).value # createEmptyCell.value
          /\ Lookup(cells, id) = createEmptyCell

\* ----------------------------------------------------- selection claims
\* Address id lies between the corners a and b, whichever way they lie.
Between(x, lo, hi) == (lo <= x /\ x <= hi) \/ (hi <= x /\ x <= lo)

\* The inclusive rectangle between two corners, among the addresses up to
\* the largest grid.
Rectangle(a, b) ==
    { id \in { CellId(indexToColumnLetter(c), r) : c \in 0..MaxCols, r \in 1..MaxRows } :
        /\ Between(ColIdx(id), ColIdx(a), ColIdx(b))
        /\ Between(id.row, a.row, b.row) }

\* Each address comes before the next one in row-major order.
RowMajor(ids) ==
    \A i \in 1..(Len(ids) - 1) :
        \/ ids[i].row < ids[i + 1].row
        \/ ids[i].row = ids[i + 1].row /\ ColIdx(ids[i]) < ColIdx(ids[i + 1])

\* C16: while a drag is in progress, handleDrag(c) leaves as the selection
\* the inclusive rectangle between dragStart and c, each address once and in
\* row-major order, wherever c lies, and leaves dragStart as it was.
C16_DragRectangle ==
    [][ (UserStep("handleDrag") /\ isDragging /\ dragStart # Null)
            => /\ IdsOf(selectedCells') = Rectangle(dragStart, lastOp'.id)
               /\ Len(selectedCells') = Cardinality(Rectangle(dragStart, lastOp'.id))
               /\ RowMajor(selectedCells')
               /\ dragStart' = dragStart ]_vars

\* A drag has reached a cell to the left of and above its anchor.
C16_Witness ==
    /\ lastOp.op = "handleDrag"
    /\ isDragging
    /\ dragStart # Null
    /\ ColIdx(lastOp.id) < ColIdx(dragStart)
    /\ lastOp.id.row < dragStart.row
    /\ Len(selectedCells) = 4

\* C17: a shift-click on c with an anchor (the selected cell) sets the
\* selection to the rectangle between the anchor and c and leaves the anchor
\* as it was, so that the next shift-click starts from the same anchor.
C17_ShiftClickKeepsAnchor ==
    [][ (UserStep("shiftClick") /\ selectedCell # Null)
            => /\ IdsOf(selectedCells') = Rectangle(selectedCell, lastOp'.id)
               /\ selectedCell' = selectedCell ]_vars

\* ------------------------------------------------------------ import claim
\* The operations of the user that change the grid.
EditOps ==
    { "handleChange", "formulaBar", "paste", "pasteSelection", "cut", "clear", "undo", "redo",
      "addRow", "deleteRow", "addColumn", "deleteColumn" }

\* C18: while the formula evaluation that an import has scheduled is still
\* to run (its timer is set), no edit of the user is applied to the grid.
C18_ImportEvaluatesFirst ==
    [][ timers > 0 => ~(\E op \in EditOps : UserStep(op)) ]_vars

\* ----------------------------------------------------------- address claims
\* C19: parseRange does not depend on the order of the corners: the result
\* for `start:end` is the inclusive rectangle between the two corners, each
\* address once, and holds the same addresses as the result for `end:start`;
\* for a single cell it is that cell.
C19_RangeOrderInsensitive ==
    lastOp.op = "parseRange"
        => LET start == lastOp.id[1]
               end == lastOp.id[2]
           IN /\ IdsOf(lastOp.out) = Rectangle(start, end)
              /\ Len(lastOp.out) = Cardinality(Rectangle(start, end))
              /\ IdsOf(lastOp.out) = IdsOf(parseRange(<< RefOf(end), RefOf(start) >>))
              /\ start = end => lastOp.out = << start >>

\* C20: parseReference of the text of column index c and row r returns
\* column index c and row r, for one-letter and for longer column texts.
C20_AddressRoundTrip ==
    lastOp.op = "parseReference"
        => /\ lastOp.out # Invalid
           /\ lastOp.out.colIndex = lastOp.id[1]
           /\ lastOp.out.row = lastOp.id[2]

\* ------------------------------------------------------------ grid claims
\* The key is the address of a cell of the grid of r rows and c columns.
InBounds(id, r, c) ==
    /\ DOMAIN id = { "col", "row" }
    /\ InGrid(ColIdx(id), id.row, r, c)

\* C27: no cell is stored at an address outside the grid bounds: the cells
\* of a deleted row or column are gone and no paste creates a cell beyond
\* the bounds.
C27_CellsInBounds ==
    \A id \in StoredIds(cells) : InBounds(id, rows, cols)

\* ---------------------------------------------------- history invariants
\* The first n entries of the history after the step are the entries
\* d + 1 .. d + n of the history before it, unchanged.
Retained(n, d) ==
    /\ n + d <= Len(history)
    /\ n <= Len(history')
    /\ \A k \in 1..n : plainEntry(history'[k]) = plainEntry(history[k + d])

\* The step calls saveState: an operation of the user that changes the
\* grid, or the effects, which write through updateCell.
SavingStep ==
    \/ \E op \in MutatingOps \cup { "pasteSelection" } : UserStep(op)
    \/ lastOp'.op = "effects" /\ history' # history

\* C28: a history entry never changes while it remains in the history.  A
\* step that calls saveState j times keeps the entries up to historyIndex,
\* less the oldest ones dropped for the bound, as they were, in front of the
\* j entries it appends; every other step, the deferred evaluation of an
\* import included, leaves every entry as it was.
C28_HistoryImmutable ==
    [][ IF SavingStep
        THEN \E j \in 1..(Len(effects) + 2) :
                /\ Len(history') = Min(historyIndex + 1 + j, MAX_HISTORY)
                /\ LET n == Max(Len(history') - j, 0)
                   IN Retained(n, historyIndex + 1 - n)
        ELSE Len(history') = Len(history) /\ Retained(Len(history), 0) ]_vars

\* C29: a non-empty history has 0 <= historyIndex < length <= MAX_HISTORY;
\* an empty history has historyIndex = -1.
C29_HistoryIndexRange ==
    IF history = << >>
    THEN historyIndex = -1
    ELSE /\ 0 <= historyIndex
         /\ historyIndex < Len(history)
         /\ Len(history) <= MAX_HISTORY

\* The history is full and an undo has moved historyIndex off its last entry.
C29_Witness ==
    /\ lastOp.op = "undo"
    /\ Len(history) = MAX_HISTORY
    /\ historyIndex < Len(history) - 1
    /\ historyIndex >= 0

\* ------------------------------------------------------------- edit claims
\* C30: the formula of every cell is non-empty exactly when the text given
\* to the cell begins with '=': a stored formula begins with '=', and a cell
\* whose value is still a text that begins with '=' has that text as formula.
C30_FormulaIffEquals ==
    \A i \in DOMAIN cells :
        /\ truthy(cells[i].cell.formula) => startsWithEq(cells[i].cell.formula)
        /\ startsWithEq(cells[i].cell.value) => cells[i].cell.formula = cells[i].cell.value

\* ================================================== the evaluator on texts
\* A text is the sequence of its characters.  The operators below follow
\* evaluateFormula, parseRange, parseReference, normalizeReference and
\* splitParameters character by character.
UpperCase ==
    << "A", "B", "C", "D", "E", "F", "G", "H", "I", "J", "K", "L", "M",
       "N", "O", "P", "Q", "R", "S", "T", "U", "V", "W", "X", "Y", "Z" >>

LowerCase ==
    << "a", "b", "c", "d", "e", "f", "g", "h", "i", "j", "k", "l", "m",
       "n", "o", "p", "q", "r", "s", "t", "u", "v", "w", "x", "y", "z" >>

Digits == << "0", "1", "2", "3", "4", "5", "6", "7", "8", "9" >>

\* The characters of the codes 91 .. 96, between Z and a; the backslash and
\* the grave accent are written by name.
AfterZ == << "[", "backslash", "]", "^", "_", "grave" >>

Range(seq) == { seq[i] : i \in DOMAIN seq }

IndexOf(seq, ch) == CHOOSE i \in DOMAIN seq : seq[i] = ch

isLetter(ch) == ch \in Range(UpperCase) \cup Range(LowerCase)

isDigit(ch) == ch \in Range(Digits)

upperChar(ch) == IF ch \in Range(LowerCase) THEN UpperCase[IndexOf(LowerCase, ch)] ELSE ch

lowerChar(ch) == IF ch \in Range(UpperCase) THEN LowerCase[IndexOf(UpperCase, ch)] ELSE ch

toUpperCase(text) == [ i \in DOMAIN text |-> upperChar(text[i]) ]

toLowerCase(text) == [ i \in DOMAIN text |-> lowerChar(text[i]) ]

\* text.startsWith(prefix)
startsWith(text, prefix) ==
    Len(text) >= Len(prefix) /\ SubSeq(text, 1, Len(prefix)) = prefix

\* text.substring(from) (from counted from 0)
substring(text, from) == SubSeq(text, from + 1, Len(text))

\* text.slice(from, -1): from the index `from` (counted from 0) up to, not
\* including, the last character.
sliceToLast(text, from) == SubSeq(text, from + 1, Len(text) - 1)

\* text.trim(); the blank is the white space of the texts of the model.
RECURSIVE trimStart(_)
trimStart(text) ==
    IF text # << >> /\ Head(text) = " " THEN trimStart(Tail(text)) ELSE text

RECURSIVE trimEnd(_)
trimEnd(text) ==
    IF text # << >> /\ text[Len(text)] = " " THEN trimEnd(SubSeq(text, 1, Len(text) - 1)) ELSE text

trim(text) == trimEnd(trimStart(text))

\* text.split(sep) for a separator of one character
RECURSIVE splitAcc(_, _, _, _)
splitAcc(text, sep, current, parts) ==
    IF text = << >> THEN Append(parts, current)
    ELSE IF Head(text) = sep THEN splitAcc(Tail(text), sep, << >>, Append(parts, current))
    ELSE splitAcc(Tail(text), sep, Append(current, Head(text)), parts)

split(text, sep) == splitAcc(text, sep, << >>, << >>)

\* texts.join(sep)
RECURSIVE join(_, _)
join(texts, sep) ==
    IF texts = << >> THEN << >>
    ELSE IF Len(texts) = 1 THEN texts[1]
    ELSE texts[1] \o sep \o join(Tail(texts), sep)

\* parseInt(digits, 10) of a run of digits
RECURSIVE parseIntAcc(_, _)
parseIntAcc(digits, n) ==
    IF digits = << >> THEN n
    ELSE parseIntAcc(Tail(digits), n * 10 + (IndexOf(Digits, Head(digits)) - 1))

parseInt(digits) == parseIntAcc(digits, 0)

\* n.toString() of an integer
RECURSIVE digitsOf(_)
digitsOf(n) ==
    IF n < 10 THEN << Digits[n + 1] >> ELSE Append(digitsOf(n \div 10), Digits[(n % 10) + 1])

intToString(n) == IF n < 0 THEN << "-" >> \o digitsOf(0 - n) ELSE digitsOf(n)

\* String.fromCharCode(65 + col)
fromCharCode65Text(col) ==
    IF col < 26 THEN UpperCase[col + 1]
    ELSE IF col < 32 THEN AfterZ[col - 25]
    ELSE IF col < 58 THEN LowerCase[col - 31]
    ELSE "?"

\* text.match(/^[A-Za-z]+/): the leading run of letters.
RECURSIVE leadingLetters(_)
leadingLetters(text) ==
    IF text # << >> /\ isLetter(Head(text)) THEN << Head(text) >> \o leadingLetters(Tail(text))
    ELSE << >>

\* parseReference on a text; Invalid where the code throws.
parseReferenceText(ref) ==
    IF ref = << >> THEN Invalid
    ELSE LET original == trim(ref)
             colAbsolute == startsWith(original, << "$" >>)
             afterColMark == IF colAbsolute THEN substring(original, 1) ELSE original
             colMatch == leadingLetters(afterColMark)
             colLetter == toUpperCase(colMatch)
             afterCol == substring(afterColMark, Len(colLetter))
             rowAbsolute == startsWith(afterCol, << "$" >>)
             afterRowMark == IF rowAbsolute THEN substring(afterCol, 1) ELSE afterCol
             rowMatch == afterRowMark # << >> /\ \A i \in DOMAIN afterRowMark : isDigit(afterRowMark[i])
         IN IF colMatch = << >> \/ ~rowMatch THEN Invalid
            ELSE [ colIndex |-> colIndexAcc([ i \in DOMAIN colLetter |-> IndexOf(UpperCase, colLetter[i]) ], 0),
                   row |-> parseInt(afterRowMark),
                   colAbsolute |-> colAbsolute, rowAbsolute |-> rowAbsolute ]

\* normalizeReference without a currentCell: every dollar sign is removed.
normalizeReference(ref) == SelectSeq(ref, LAMBDA ch : ch # "$")

\* The two nested loops of parseRange on texts: columns outer, rows inner.
RangeTexts(c1, c2, r1, r2) ==
    IF c2 < c1 \/ r2 < r1 THEN << >>
    ELSE LET h == r2 - r1 + 1
             n == (c2 - c1 + 1) * h
         IN [ i \in 1..n |->
                << fromCharCode65Text(c1 + ((i - 1) \div h)) >> \o intToString(r1 + ((i - 1) % h)) ]

\* parseRange on a text; the catch returns the empty list.
parseRangeText(range) ==
    IF range = << >> \/ trim(range) = << >> THEN << >>
    ELSE LET parts == split(range, ":")
             start == trim(parts[1])
             end == IF Len(parts) > 1 THEN trim(parts[2]) ELSE start
         IN IF end = << >> THEN << normalizeReference(start) >>
            ELSE LET startRef == parseReferenceText(start)
                     endRef == parseReferenceText(end)
                 IN IF startRef = Invalid \/ endRef = Invalid THEN << >>
                    ELSE RangeTexts(startRef.colIndex, endRef.colIndex, startRef.row, endRef.row)

\* The texts the code compares with and returns.
T_SUM == << "S", "U", "M", "(" >>

T_AVERAGE == << "A", "V", "E", "R", "A", "G", "E", "(" >>

T_MAX == << "M", "A", "X", "(" >>

T_MIN == << "M", "I", "N", "(" >>

T_COUNT == << "C", "O", "U", "N", "T", "(" >>

T_TRIM == << "T", "R", "I", "M", "(" >>

T_UPPER == << "U", "P", "P", "E", "R", "(" >>

T_LOWER == << "L", "O", "W", "E", "R", "(" >>

T_REMOVE_DUPLICATES == << "R", "E", "M", "O", "V", "E", "_", "D", "U", "P", "L", "I", "C", "A", "T", "E", "S", "(" >>

T_FIND_AND_REPLACE == << "F", "I", "N", "D", "_", "A", "N", "D", "_", "R", "E", "P", "L", "A", "C", "E", "(" >>

INFINITY_TEXT == << "I", "n", "f", "i", "n", "i", "t", "y" >>

MINUS_INFINITY_TEXT == << "-", "I", "n", "f", "i", "n", "i", "t", "y" >>

ERROR_PARAMETERS_TEXT ==
    << "#", "E", "R", "R", "O", "R", ":", " ", "E", "x", "p", "e", "c", "t", "e", "d", " ", "3", " ", "p", "a", "r", "a", "m", "e", "t", "e", "r", "s", " " >>
        \o << "(", "r", "a", "n", "g", "e", ",", " ", "f", "i", "n", "d", "_", "t", "e", "x", "t", ",", " ", "r", "e", "p", "l", "a", "c", "e", "_", "t", "e", "x", "t", ")" >>

\* cells[ref]?.value || '' on a sheet of texts: the entries << key, value >>.
getCellValueText(sheet, ref) ==
    IF \E i \in DOMAIN sheet : sheet[i][1] = ref
    THEN sheet[CHOOSE i \in DOMAIN sheet : sheet[i][1] = ref][2]
    ELSE << >>

NaN == [nan |-> TRUE, n |-> 0]

HexDigits == Digits \o << "A", "B", "C", "D", "E", "F" >>

RECURSIVE parseHexAcc(_, _)
parseHexAcc(digits, n) ==
    IF digits = << >> THEN n
    ELSE parseHexAcc(Tail(digits), n * 16 + (IndexOf(HexDigits, upperChar(Head(digits))) - 1))

isDigitRun(text) == text # << >> /\ \A i \in DOMAIN text : isDigit(text[i])

isHexRun(text) == text # << >> /\ \A i \in DOMAIN text : upperChar(text[i]) \in Range(HexDigits)

\* Number(v): white space is trimmed, the empty text is 0, a run of digits
\* with an optional sign is its value, 0x or 0X and hexadecimal digits is
\* that value, and every other text of the model is NaN (no text of the
\* model has a fraction, an exponent or reads Infinity).
NumberText(v) ==
    LET t == trim(v)
    IN IF t = << >> THEN [nan |-> FALSE, n |-> 0]
       ELSE IF isDigitRun(t) THEN [nan |-> FALSE, n |-> parseInt(t)]
       ELSE IF Head(t) = "+" /\ isDigitRun(Tail(t)) THEN [nan |-> FALSE, n |-> parseInt(Tail(t))]
       ELSE IF Head(t) = "-" /\ isDigitRun(Tail(t)) THEN [nan |-> FALSE, n |-> 0 - parseInt(Tail(t))]
       ELSE IF Len(t) > 2 /\ Head(t) = "0" /\ upperChar(t[2]) = "X" /\ isHexRun(substring(t, 2))
            THEN [nan |-> FALSE, n |-> parseHexAcc(substring(t, 2), 0)]
       ELSE NaN

\* values.filter(v => !isNaN(Number(v))).map(Number)
numbersOf(values) ==
    LET kept == SelectSeq(values, LAMBDA v : ~NumberText(v).nan)
    IN [ i \in DOMAIN kept |-> NumberText(kept[i]).n ]

RECURSIVE sumOf(_)
sumOf(numbers) == IF numbers = << >> THEN 0 ELSE Head(numbers) + sumOf(Tail(numbers))

\* The quotient has at most two decimals.
Representable(sum, count) ==
    IF count = 0 THEN TRUE ELSE ((IF sum < 0 THEN 0 - sum ELSE sum) * 100) % count = 0

\* (sum / count).toString() for a representable quotient; 0 / 0 is NaN.
quotientToString(sum, count) ==
    IF count = 0 THEN << "N", "a", "N" >>
    ELSE LET magnitude == IF sum < 0 THEN 0 - sum ELSE sum
             whole == magnitude \div count
             cents == ((magnitude * 100) \div count) % 100
             sign == IF sum < 0 /\ magnitude # 0 THEN << "-" >> ELSE << >>
             decimals == IF cents = 0 THEN << >>
                         ELSE IF cents % 10 = 0 THEN << ".", Digits[(cents \div 10) + 1] >>
                         ELSE << ".", Digits[(cents \div 10) + 1], Digits[(cents % 10) + 1] >>
         IN sign \o digitsOf(whole) \o decimals

\* Math.max(...numbers).toString()
maxToString(numbers) ==
    IF numbers = << >> THEN MINUS_INFINITY_TEXT
    ELSE intToString(SetMax(Range(numbers)))

\* Math.min(...numbers).toString()
minToString(numbers) ==
    IF numbers = << >> THEN INFINITY_TEXT
    ELSE intToString(SetMin(Range(numbers)))

\* [...new Set(values)]: the first occurrence of each value, in order.
RECURSIVE uniqueAcc(_, _)
uniqueAcc(values, seen) ==
    IF values = << >> THEN seen
    ELSE uniqueAcc(Tail(values),
                   IF Head(values) \in Range(seen) THEN seen ELSE Append(seen, Head(values)))

uniqueValues(values) == uniqueAcc(values, << >>)

isQuote(ch) == ch = "\"" \/ ch = "'"

\* The loop of splitParameters over the characters that remain.
RECURSIVE splitParametersAcc(_, _, _, _, _)
splitParametersAcc(paramString, params, currentParam, inQuotes, quoteChar) ==
    IF paramString = << >>
    THEN IF currentParam # << >> THEN Append(params, trim(currentParam)) ELSE params
    ELSE LET char == Head(paramString)
         IN IF isQuote(char) /\ (~inQuotes \/ quoteChar = char)
            THEN splitParametersAcc(Tail(paramString), params, Append(currentParam, char),
                                    ~inQuotes, IF ~inQuotes THEN char ELSE quoteChar)
            ELSE IF char = "," /\ ~inQuotes
            THEN splitParametersAcc(Tail(paramString), Append(params, trim(currentParam)), << >>,
                                    inQuotes, quoteChar)
            ELSE splitParametersAcc(Tail(paramString), params, Append(currentParam, char),
                                    inQuotes, quoteChar)

splitParameters(paramString) == splitParametersAcc(paramString, << >>, << >>, FALSE, "")

\* text.replace(/^["']|["']$/g, ''): a quote that starts the text and a quote
\* that ends it are removed.
stripQuotes(text) ==
    LET first == IF text # << >> /\ isQuote(Head(text)) THEN Tail(text) ELSE text
    IN IF first # << >> /\ isQuote(first[Len(first)]) THEN SubSeq(first, 1, Len(first) - 1) ELSE first

\* value.replaceAll(find, replacement) for texts; no replacement text of the
\* model holds a dollar sign.
RECURSIVE replaceAll(_, _, _)
replaceAll(value, find, replacement) ==
    IF find = << >>
    THEN IF value = << >> THEN replacement
         ELSE replacement \o << Head(value) >> \o replaceAll(Tail(value), find, replacement)
    ELSE IF value = << >> THEN << >>
    ELSE IF startsWith(value, find)
    THEN replacement \o replaceAll(substring(value, Len(find)), find, replacement)
    ELSE << Head(value) >> \o replaceAll(Tail(value), find, replacement)

\* evaluateFormula on texts over a sheet of texts.
evaluateFormulaText(formula, sheet) ==
    IF ~startsWith(formula, << "=" >>) THEN formula
    ELSE LET cleanFormula == toUpperCase(substring(formula, 1))
             valuesOf(range) == [ i \in DOMAIN range |-> getCellValueText(sheet, range[i]) ]
         IN IF startsWith(cleanFormula, T_SUM)
            THEN intToString(sumOf(numbersOf(valuesOf(parseRangeText(sliceToLast(cleanFormula, 4))))))
            ELSE IF startsWith(cleanFormula, T_AVERAGE)
            THEN LET numbers == numbersOf(valuesOf(parseRangeText(sliceToLast(cleanFormula, 8))))
                 IN quotientToString(sumOf(numbers), Len(numbers))
            ELSE IF startsWith(cleanFormula, T_MAX)
            THEN maxToString(numbersOf(valuesOf(parseRangeText(sliceToLast(cleanFormula, 4)))))
            ELSE IF startsWith(cleanFormula, T_MIN)
            THEN minToString(numbersOf(valuesOf(parseRangeText(sliceToLast(cleanFormula, 4)))))
            ELSE IF startsWith(cleanFormula, T_COUNT)
            THEN intToString(Len(numbersOf(valuesOf(parseRangeText(sliceToLast(cleanFormula, 6))))))
            ELSE IF startsWith(cleanFormula, T_TRIM)
            THEN trim(getCellValueText(sheet, sliceToLast(cleanFormula, 5)))
            ELSE IF startsWith(cleanFormula, T_UPPER)
            THEN toUpperCase(getCellValueText(sheet, sliceToLast(cleanFormula, 6)))
            ELSE IF startsWith(cleanFormula, T_LOWER)
            THEN toLowerCase(getCellValueText(sheet, sliceToLast(cleanFormula, 6)))
            ELSE IF startsWith(cleanFormula, T_REMOVE_DUPLICATES)
            THEN join(uniqueValues(valuesOf(parseRangeText(sliceToLast(cleanFormula, 17)))), << ",", " " >>)
            ELSE IF startsWith(cleanFormula, T_FIND_AND_REPLACE)
            THEN LET params == splitParameters(sliceToLast(cleanFormula, 16))
                 IN IF Len(params) # 3 THEN ERROR_PARAMETERS_TEXT
                    ELSE LET cleanFindText == stripQuotes(params[2])
                             cleanReplaceText == stripQuotes(params[3])
                             values == valuesOf(parseRangeText(params[1]))
                             replacedValues ==
                                 [ i \in DOMAIN values |-> replaceAll(values[i], cleanFindText, cleanReplaceText) ]
                         IN join(replacedValues, << ",", " " >>)
            ELSE formula

\* ----------------------------------------------- the evaluator's inputs
\* The sheets of texts the formulas are evaluated over.
Sheets ==
    << << << << "A", "1" >>, << "2" >> >>, << << "A", "2" >>, << "x" >> >>, << << "A", "3" >>, << "3" >> >> >>,
       << << << "A", "1" >>, << "2" >> >>, << << "A", "2" >>, << >> >> >>,
       << << << "A", "1" >>, << "x" >> >>, << << "A", "2" >>, << "y" >> >>, << << "A", "3" >>, << "x" >> >> >>,
       << << << "A", "1" >>, << "0", "x", "1", "0" >> >>, << << "A", "2" >>, << " ", "b", " " >> >>, << << "A", "3" >>, << "2" >> >> >>,
       << << << "A", "1" >>, << "4" >> >>, << << "A", "2" >>, << "4" >> >>, << << "A", "3" >>, << "1" >> >> >> >>

\* The function names and argument texts of the formulas.
FunctionNames ==
    { << "S", "U", "M" >>,
      << "A", "V", "E", "R", "A", "G", "E" >>,
      << "M", "A", "X" >>,
      << "M", "I", "N" >>,
      << "C", "O", "U", "N", "T" >>,
      << "T", "R", "I", "M" >>,
      << "U", "P", "P", "E", "R" >>,
      << "L", "O", "W", "E", "R" >>,
      << "R", "E", "M", "O", "V", "E", "_", "D", "U", "P", "L", "I", "C", "A", "T", "E", "S" >>,
      << "N", "O", "P", "E" >> }

ArgumentTexts ==
    { << "A", "1", ":", "A", "3" >>,
      << "a", "1", ":", "a", "2" >>,
      << "$", "A", "$", "1", ":", "$", "A", "$", "3" >>,
      << "A", "$", "1", ":", "$", "A", "2" >>,
      << "A", "3", ":", "A", "1" >>,
      << "A", "1" >>,
      << "$", "A", "$", "1" >>,
      << "A", "2" >>,
      << "$", "A", "2" >>,
      << "A", "$", "2" >> }

\* The range texts given to parseRange, well formed and malformed.
RangeInputs ==
    { << "A", "1", ":", "A", "3" >>,
      << "A", "3", ":", "A", "1" >>,
      << "A", "1" >>,
      << "$", "A", "$", "1", ":", "A", "$", "2" >>,
      << "f", "o", "o", ":" >>,
      << "A", "1", ":" >>,
      << "A", "1", "B", ":", "A", "2" >>,
      << "1", "A", ":", "A", "2" >>,
      << "A", "1", ":", "B" >>,
      << >>,
      << ":" >>,
      << "A", ":", "1" >> }

\* The texts to find and to put in their place, and the quote around them.
FindTexts == { << "x" >>, << "b" >> }

ReplaceTexts == { << "z" >>, << "Q" >> }

QuoteTexts == { << >>, << "'" >>, << "\"" >> }

\* The text =name(argument)
CallText(name, argument) == << "=" >> \o name \o << "(" >> \o argument \o << ")" >>

\* The text =FIND_AND_REPLACE(range, 'find', 'replace')
FindAndReplaceText(range, find, replacement, quote) ==
    CallText(SubSeq(T_FIND_AND_REPLACE, 1, Len(T_FIND_AND_REPLACE) - 1),
             range \o << ",", " " >> \o quote \o find \o quote
                   \o << ",", " " >> \o quote \o replacement \o quote)

\* The average of the formula has at most two decimals.
AverageRepresentable(argument, sheet) ==
    LET range == parseRangeText(toUpperCase(argument))
        numbers == numbersOf([ i \in DOMAIN range |-> getCellValueText(sheet, range[i]) ])
    IN Representable(sumOf(numbers), Len(numbers))

\* A call is made from the state the store is constructed in.
\* evaluateFormula('=name(argument)', ref => sheet[ref]?.value || '')
EvaluateCall(name, argument, k) ==
    /\ lastOp.op = "init"
    /\ AverageRepresentable(argument, Sheets[k])
    /\ lastOp' = [ op |-> "evaluateFormula", id |-> << name, argument, k >>,
                   out |-> evaluateFormulaText(CallText(name, argument), Sheets[k]),
                   hi |-> historyIndex, hl |-> Len(history) ]
    /\ UNCHANGED << store, selection, clipboard, async, budget >>

\* evaluateFormula of a FIND_AND_REPLACE formula
FindAndReplaceCall(range, find, replacement, quote, k) ==
    /\ lastOp.op = "init"
    /\ lastOp' = [ op |-> "findAndReplace", id |-> << range, find, replacement, k >>,
                   out |-> evaluateFormulaText(FindAndReplaceText(range, find, replacement, quote), Sheets[k]),
                   hi |-> historyIndex, hl |-> Len(history) ]
    /\ UNCHANGED << store, selection, clipboard, async, budget >>

\* parseRange(range)
ParseRangeTextCall(range) ==
    /\ lastOp.op = "init"
    /\ lastOp' = [ op |-> "parseRangeText", id |-> range, out |-> parseRangeText(range),
                   hi |-> historyIndex, hl |-> Len(history) ]
    /\ UNCHANGED << store, selection, clipboard, async, budget >>

InitEval == InitStore /\ budget = 0

NextEval ==
    \/ \E name \in FunctionNames, argument \in ArgumentTexts, k \in DOMAIN Sheets :
          EvaluateCall(name, argument, k)
    \/ \E range \in { << "A", "1", ":", "A", "3" >>, << "a", "1", ":", "a", "2" >> },
          find \in FindTexts, replacement \in ReplaceTexts, quote \in QuoteTexts, k \in DOMAIN Sheets :
          FindAndReplaceCall(range, find, replacement, quote, k)
    \/ \E range \in RangeInputs : ParseRangeTextCall(range)

EvalSpec == InitEval /\ [][NextEval]_vars

\* ------------------------------------------------------- evaluator claims
\* The name of a function without its opening parenthesis.
NameOf(prefix) == SubSeq(prefix, 1, Len(prefix) - 1)

AggregateNames == { NameOf(T_SUM), NameOf(T_AVERAGE), NameOf(T_MAX), NameOf(T_MIN), NameOf(T_COUNT) }

\* The call recorded in lastOp: its function, argument, sheet and result.
CallName == lastOp.id[1]

CallArgument == lastOp.id[2]

CallSheet == Sheets[lastOp.id[3]]

\* The values of the cells the argument of the call ranges over.
CallValues ==
    LET range == parseRangeText(toUpperCase(CallArgument))
    IN [ i \in DOMAIN range |-> getCellValueText(CallSheet, range[i]) ]

\* The text is a base-10 integer: digits with an optional sign (no text of
\* the model has a fraction).
isDecimalText(v) ==
    \/ isDigitRun(v)
    \/ v # << >> /\ Head(v) \in { "+", "-" } /\ isDigitRun(Tail(v))

\* The numbers of the cells whose value is a base-10 number.
DecimalNumbers ==
    LET kept == SelectSeq(CallValues, isDecimalText)
    IN [ i \in DOMAIN kept |-> NumberText(kept[i]).n ]

\* C21: for SUM, AVERAGE, MAX, MIN and COUNT the cells of the range whose
\* value is a base-10 number contribute and no other cell does: text,
\* empty and absent cells are left out, not counted as zero.
C21_NumericCellsOnly ==
    (lastOp.op = "evaluateFormula" /\ CallName \in AggregateNames)
        => /\ CallName = NameOf(T_SUM) => lastOp.out = intToString(sumOf(DecimalNumbers))
           /\ CallName = NameOf(T_COUNT) => lastOp.out = intToString(Len(DecimalNumbers))
           /\ (CallName = NameOf(T_AVERAGE) /\ DecimalNumbers # << >>)
                 => lastOp.out = quotientToString(sumOf(DecimalNumbers), Len(DecimalNumbers))
           /\ (CallName = NameOf(T_MAX) /\ DecimalNumbers # << >>)
                 => lastOp.out = intToString(SetMax(Range(DecimalNumbers)))
           /\ (CallName = NameOf(T_MIN) /\ DecimalNumbers # << >>)
                 => lastOp.out = intToString(SetMin(Range(DecimalNumbers)))

\* The text is an error token: it begins with '#'.
isErrorToken(text) == text # << >> /\ Head(text) = "#"

\* C22: over a range without a numeric cell AVERAGE returns the token
\* #DIV0 and MAX and MIN return an error token.
C22_EmptyAggregateIsError ==
    ( /\ lastOp.op = "evaluateFormula"
      /\ CallName \in { NameOf(T_AVERAGE), NameOf(T_MAX), NameOf(T_MIN) }
      /\ numbersOf(CallValues) = << >> )
        => /\ isErrorToken(lastOp.out)
           /\ CallName = NameOf(T_AVERAGE) => lastOp.out = << "#", "D", "I", "V", "0" >>

\* C23: REMOVE_DUPLICATES returns the values of the cells of the range, the
\* first occurrence of each kept in range order, joined by ', '.
C23_RemoveDuplicates ==
    (lastOp.op = "evaluateFormula" /\ CallName = NameOf(T_REMOVE_DUPLICATES))
        => lastOp.out = join(uniqueValues(CallValues), << ",", " " >>)

\* C24: FIND_AND_REPLACE returns the value of each cell of the range with
\* every occurrence of findText replaced by replaceText, both as written in
\* the formula without their quotes, joined by ', '.
C24_FindAndReplace ==
    lastOp.op = "findAndReplace"
        => LET range == parseRangeText(toUpperCase(lastOp.id[1]))
               values == [ i \in DOMAIN range |-> getCellValueText(Sheets[lastOp.id[4]], range[i]) ]
           IN lastOp.out =
                 join([ i \in DOMAIN values |-> replaceAll(values[i], lastOp.id[2], lastOp.id[3]) ],
                      << ",", " " >>)

\* C25: a formula with absolute markers evaluates to the result of the
\* same formula without the markers.
C25_AbsoluteMarkersIgnored ==
    lastOp.op = "evaluateFormula"
        => lastOp.out = evaluateFormulaText(CallText(CallName, normalizeReference(CallArgument)), CallSheet)

\* The text of an address: an optional '$', letters, an optional '$', digits.
isAddressText(text) ==
    LET afterColMark == IF startsWith(text, << "$" >>) THEN Tail(text) ELSE text
        letters == leadingLetters(afterColMark)
        afterCol == substring(afterColMark, Len(letters))
        afterRowMark == IF startsWith(afterCol, << "$" >>) THEN Tail(afterCol) ELSE afterCol
    IN letters # << >> /\ isDigitRun(afterRowMark)

\* The text of a range: one address, or two with a colon between them.
isRangeText(text) ==
    LET parts == split(text, ":")
    IN /\ Len(parts) \in { 1, 2 }
       /\ \A i \in DOMAIN parts : isAddressText(parts[i])

\* C26: parseRange returns the empty sequence for every malformed range text.
C26_MalformedRangeIsEmpty ==
    (lastOp.op = "parseRangeText" /\ ~isRangeText(lastOp.id)) => lastOp.out = << >>

\* ---------------------------------------------------------- value claims
\* A formula whose function evaluateFormula does not know: =NOPE(A1).
NopeA1 == Fml("NOPE", << Ref(<< 1 >>, 1) >>)

\* What the user types where formulas are explored.
FormulaEdits == { << A1, Num(1) >>, << B1, SumA1A2 >>, << B1, NopeA1 >> }

\* Edits of formula cells, the recalculation they trigger, undo and redo.
InitFormula == InitStore /\ budget = MaxOps

NextFormula ==
    \/ \E e \in FormulaEdits : HandleChange(e[1], e[2])
    \/ CellEffects
    \/ Undo
    \/ Redo

FormulaSpec == InitFormula /\ [][NextFormula]_vars

\* C31: once the effects of the rendered cells have run, no stored cell
\* whose formula begins with '=' has the text of the formula as its value.
C31_ValueNeverFormulaText ==
    Quiescent =>
        \A i \in DOMAIN cells :
            startsWithEq(cells[i].cell.formula) => cells[i].cell.value # cells[i].cell.formula

\* ----------------------------------------------------------- drag claims
\* The operations of the mouse that go to startDrag, handleDrag and endDrag.
DragOps == { "mouseDown", "handleDrag", "endDrag" }

\* C32: handleDrag while no drag is in progress (before any startDrag and
\* after endDrag) leaves selectedCells, dragStart and isDragging as they
\* were; and startDrag, handleDrag and endDrag leave cells, rows, cols, the
\* clipboard and the history as they were.
C32_DragOnlyWhileDragging ==
    [][ /\ (UserStep("handleDrag") /\ ~isDragging)
            => UNCHANGED << selectedCells, dragStart, isDragging >>
        /\ (\E op \in DragOps : UserStep(op))
            => UNCHANGED << cells, rows, cols, clipboard, history, historyIndex >> ]_vars

\* handleDrag over another cell after a drag has ended, on a grid with a
\* stored cell and a history.
C32_Witness ==
    /\ lastOp.op = "handleDrag"
    /\ ~isDragging
    /\ dragStart # Null
    /\ lastOp.id # dragStart
    /\ selectedCells = << dragStart >>
    /\ cells # << >>
    /\ history # << >>

\* ----------------------------------------------------------- undo claims
\* The operations of the user that save the state and change the grid in
\* the same call.
ChangingOps == (MutatingOps \ { "import" }) \cup { "pasteSelection" }

\* The grid as it was before the last operation: the entry saveState
\* appended for it, the last of the history.
GridBefore == plainEntry(history[Len(history)])

\* C33: an undo that directly follows a mutating operation which changed
\* the grid restores the grid as it was before that operation.
C33_UndoRestoresPrevious ==
    [][ (UserStep("undo") /\ lastOp.op \in ChangingOps /\ GridBefore # Grid)
            => Grid' = GridBefore ]_vars

\* The grid of a store.
GridOf(s) == [cells |-> plain(s.cells), rows |-> s.rows, cols |-> s.cols]

\* C34: wherever undo is not a no-op (historyIndex > 0), undo followed at
\* once by redo leaves cells, rows and cols as they were before the undo.
C34_UndoThenRedo ==
    historyIndex > 0 => GridOf(redo(undo(Store))) = Grid

\* C35: one operation of the user that changes the grid appends exactly one
\* entry to the history, and the re-evaluation of formulas that follows it
\* appends none: it leaves the history and historyIndex as the operation
\* left them.
C35_OneEntryPerOperation ==
    [][ /\ (\E op \in ChangingOps : UserStep(op))
            => /\ plainHistory(history') = PushedOnce
               /\ historyIndex' = Len(history') - 1
        /\ lastOp'.op = "effects"
            => /\ plainHistory(history') = plainHistory(history)
               /\ historyIndex' = historyIndex ]_vars

\* C36: a paste with an empty clipboard and a cut with an empty selection
\* leave the history and historyIndex as they were.
C36_NoChangeNoEntry ==
    [][ ( \/ ((UserStep("paste") \/ UserStep("pasteSelection")) /\ clipboard = Null)
          \/ (UserStep("cut") /\ selectedCells = << >>) )
            => /\ plainHistory(history') = plainHistory(history)
               /\ historyIndex' = historyIndex ]_vars

\* ================================================= the toolbar's styles
\* A style object is a record; a property the object does not have is a
\* field the record does not have.
\* { ...cell?.style }: the style of the stored cell, no property at all
\* when no cell is stored under the id.
styleOf(m, id) == IF Has(m, id) THEN Lookup(m, id).style ELSE << >>

\* !cell?.style[style]: the negation of the stored flag; true when the
\* cell or the flag is undefined.
toggled(m, id, style) ==
    IF Has(m, id) /\ style \in DOMAIN Lookup(m, id).style
    THEN ~Lookup(m, id).style[style]
    ELSE TRUE

\* The style object the three handlers of the toolbar pass to updateCell.
styleWith(m, id, property, v) ==
    Spread(styleOf(m, id), [ p \in { property } |-> v ])

\* The sizes the number field gives (Number('') of the cleared field is 0)
\* and the colours the colour field gives.
FontSizes == { 12, 0 }

TextColors == { "#ff0000" }

StyleFlags == { "bold", "italic" }

\* What the user types where the styles are explored.
StyleEdits == { << A1, Num(1) >> }

StyleClickIds == { A1, B1 }

\* Toolbar.toggleStyle
ToggleStyle(style) ==
    /\ selectedCell # Null
    /\ UserOp("toggleStyle", selectedCell)
    /\ SetStore(updateCell(Store, selectedCell,
          [ style |-> styleWith(cells, selectedCell, style, toggled(cells, selectedCell, style)) ],
          Fresh))
    /\ UNCHANGED << selection, clipboard, async >>

\* Toolbar.updateFontSize
UpdateFontSize(size) ==
    /\ selectedCell # Null
    /\ UserOp("updateFontSize", selectedCell)
    /\ SetStore(updateCell(Store, selectedCell,
          [ style |-> styleWith(cells, selectedCell, "fontSize", size) ], Fresh))
    /\ UNCHANGED << selection, clipboard, async >>

\* Toolbar.updateTextColor
UpdateTextColor(color) ==
    /\ selectedCell # Null
    /\ UserOp("updateTextColor", selectedCell)
    /\ SetStore(updateCell(Store, selectedCell,
          [ style |-> styleWith(cells, selectedCell, "color", color) ], Fresh))
    /\ UNCHANGED << selection, clipboard, async >>

\* Edits, clicks and the style controls of the toolbar.
InitStyle == InitStore /\ budget = MaxOps

NextStyle ==
    \/ \E e \in StyleEdits : HandleChange(e[1], e[2])
    \/ \E id \in StyleClickIds : HandleMouseDown(id)
    \/ \E style \in StyleFlags : ToggleStyle(style)
    \/ \E size \in FontSizes : UpdateFontSize(size)
    \/ \E color \in TextColors : UpdateTextColor(color)
    \/ Undo

StyleSpec == InitStyle /\ [][NextStyle]_vars

\* ---------------------------------------------------------- style claims
StyleProperties == { "bold", "italic", "fontSize", "color" }

\* C37: every cell stored in the grid has a complete style: bold and italic
\* are booleans, fontSize is a positive integer and color is defined.
C37_CompleteStyle ==
    \A i \in DOMAIN cells :
        LET style == cells[i].cell.style
        IN /\ DOMAIN style = StyleProperties
           /\ style.bold \in BOOLEAN
           /\ style.italic \in BOOLEAN
           /\ style.fontSize \in Nat \ { 0 }
           /\ style.color \in STRING
====
